---- MODULE Spec2Model ----
(***************************************************************************)
(* A model of wymp/auth-gateway: the accounts module's route table and     *)
(* body-parsing middleware (src/Modules/Accounts/index.ts), the client     *)
(* handlers (Clients: getClientsForOrgHandler, postClientHandler,          *)
(* createClient, addRoles), the mock cache, and the session / verification *)
(* code lifecycle as the README and the specification describe it.         *)
(*                                                                         *)
(* The module holds four specifications over one set of variables:         *)
(*   SpecHttp      one HTTP request travelling through the express stack   *)
(*   SpecClients   concurrent executions of the two client handlers        *)
(*   SpecSessions  login-code redemption, refresh and logout               *)
(*   SpecCache     concurrent cache.get / cache.clear on the mock cache    *)
(* Each specification leaves the variables of the others at their idle     *)
(* values.                                                                 *)
(***************************************************************************)
EXTENDS Integers, Sequences, FiniteSets, TLC

VARIABLES
    \* ---- SpecHttp
    req,            \* the request: method, path, content-type header, raw body
    pc,             \* where the request is in the express stack
    layer,          \* index of the route layer being run
    hidx,           \* index of the handler in that layer's chain
    body,           \* req.body as the JSON parser left it
    outcome,        \* how the request ended
    nextCalls,      \* calls of next made by the body-parsing middleware
    parserInvoked,  \* the JSON parser was called
    handlerInvoked, \* the route handler that was called ("none" if none)
    \* ---- SpecClients
    creq,           \* per execution: the request a client handler was called with
    cpc,            \* per execution: the await the handler is suspended at
    clocal,         \* per execution: the handler's locals (secret, client rows)
    cout,           \* per execution: res.status(..).send(..) or next(e)
    clients,        \* the 'clients' table
    clientRoles,    \* the 'client-roles' table
    nextId,         \* the id the store gives the next saved client
    authzOk,        \* per execution: the level authorizeCallerForRole granted
    writes,         \* every io.save that succeeded: execution, table, payload
    \* ---- SpecSessions
    codeState,      \* per verification code: "valid" or "consumed"
    codeExpired,    \* per verification code: its expiry has passed
    sess,           \* per session: issued, token state, refresh state, parent
    subs,           \* per submission: operation, credential, position, result
    \* ---- SpecCache
    cdata,          \* per key: the version of the data the compute function reads
    ccalls,         \* per cache.get call: state, key, data seen, value returned
    computeCount,   \* per key: invocations of the compute function
    getCount        \* per key: calls of cache.get

httpVars == <<req, pc, layer, hidx, body, outcome, nextCalls, parserInvoked, handlerInvoked>>
clientVars == <<creq, cpc, clocal, cout, clients, clientRoles, nextId, authzOk, writes>>

sessVars == <<codeState, codeExpired, sess, subs>>
cacheVars == <<cdata, ccalls, computeCount, getCount>>

vars == <<httpVars, clientVars, sessVars, cacheVars>>

\* What the actions of one specification leave alone.
notHttp == <<clientVars, sessVars, cacheVars>>
notClients == <<httpVars, sessVars, cacheVars>>
notSessions == <<httpVars, clientVars, cacheVars>>
notCache == <<httpVars, clientVars, sessVars>>

----------------------------------------------------------------------------
(* Strings as sequences of characters, so that toLowerCase is computed.     *)

UpperAlpha == <<"A","B","C","D","E","F","G","H","I","J","K","L","M",
                "N","O","P","Q","R","S","T","U","V","W","X","Y","Z">>
LowerAlpha == <<"a","b","c","d","e","f","g","h","i","j","k","l","m",
                "n","o","p","q","r","s","t","u","v","w","x","y","z">>

LowerChar(c) ==
    IF \E i \in 1..26 : UpperAlpha[i] = c
    THEN LowerAlpha[CHOOSE i \in 1..26 : UpperAlpha[i] = c]
    ELSE c

\* String.prototype.toLowerCase
toLowerCase(s) == [i \in 1..Len(s) |-> LowerChar(s[i])]

\* the literal "application/json" of index.ts line 16
ApplicationJson == <<"a","p","p","l","i","c","a","t","i","o","n","/","j","s","o","n">>

\* Content-Type headers a request may carry. present = FALSE is req.get(..) === undefined.
NoHeader == [present |-> FALSE, value |-> <<>>]
Header(v) == [present |-> TRUE, value |-> v]
ContentTypes ==
    { NoHeader,
      Header(<<>>),
      Header(ApplicationJson),
      Header(<<"A","p","p","l","i","c","a","t","i","o","n","/","J","S","O","N">>),
      Header(<<"t","e","x","t","/","p","l","a","i","n">>),
      Header(ApplicationJson \o <<";","c","h","a","r","s","e","t","=","u","t","f","-","8">>) }

\* index.ts line 16: !contentType || contentType.toLowerCase() !== "application/json"
ContentTypeRejected(ct) ==
    \/ ~ct.present
    \/ ct.value = <<>>
    \/ toLowerCase(ct.value) # ApplicationJson

----------------------------------------------------------------------------
(* Request bodies and the JSON parser.                                      *)

RawBodies == {"absent", "emptyObject", "object", "malformed"}

Undefined == [defined |-> FALSE, keys |-> {}]
Obj(ks) == [defined |-> TRUE, keys |-> ks]

\* Parsers.json(): the callbacks the parser can make for a raw body.  A request
\* without a body leaves req.body undefined or sets it to {}.
JsonParse(raw) ==
    CASE raw = "malformed"   -> {[err |-> TRUE, body |-> Undefined]}
      [] raw = "absent"      -> {[err |-> FALSE, body |-> Undefined],
                                 [err |-> FALSE, body |-> Obj({})]}
      [] raw = "emptyObject" -> {[err |-> FALSE, body |-> Obj({})]}
      [] OTHER               -> {[err |-> FALSE, body |-> Obj({"data"})]}

\* index.ts line 35: !req.body || Object.keys(req.body).length === 0
IsBlank(b) == ~b.defined \/ Cardinality(b.keys) = 0

\* A mutant of BlankRejected: the allowBlankBodies flag is ignored.
BlankRejectedIgnoringFlag(allowBlankBodies, b) == IsBlank(b)

\* index.ts line 35: the whole condition of the blank-body rejection
BlankRejected(allowBlankBodies, b) == ~allowBlankBodies /\ IsBlank(b)

\* index.ts lines 51-52
AllowBlankOf(mw) == mw = "parseBodyAllowBlank"
Middlewares == {"parseBody", "parseBodyAllowBlank"}

----------------------------------------------------------------------------
(* The route table, in registration order.                                  *)

Route(m, pats, ch) == [method |-> m, patterns |-> pats, chain |-> ch]

CatchAllHandler == "accountsCatchAll"
ProxyHandler == "downstreamProxy"

\* register(): index.ts lines 59-146, one entry per r.http.<method> call
AccountsRoutes ==
    << Route("GET", {<<"accounts","v1","organizations">>,
                     <<"accounts","v1","organizations",":id">>},
             <<"Organizations.getOrganizations">>),
       Route("POST", {<<"accounts","v1","organizations">>},
             <<"parseBody", "Organizations.postOrganizations">>),
       Route("PATCH", {<<"accounts","v1","organizations",":id">>},
             <<"parseBody", "Organizations.patchOrganization">>),
       Route("DELETE", {<<"accounts","v1","organizations",":id">>},
             <<"Organizations.deleteOrganizationHandler">>),
       Route("GET", {<<"accounts","v1","users">>}, <<"Users.getUsers">>),
       Route("GET", {<<"accounts","v1","users",":id">>}, <<"Users.getUserById">>),
       Route("POST", {<<"accounts","v1","users">>}, <<"parseBody", "Users.postUsers">>),
       Route("PATCH", {<<"accounts","v1","users",":id">>},
             <<"parseBody", "Users.patchUsers">>),
       Route("POST", {<<"accounts","v1","users",":id","change-password">>},
             <<"parseBody", "Users.postChangePasswordHandler">>),
       Route("DELETE", {<<"accounts","v1","users",":id">>}, <<"Users.deleteUsers">>),
       Route("GET", {<<"accounts","v1","users",":id","memberships">>},
             <<"OrgMemberships.getByUserIdHandler">>),
       Route("GET", {<<"accounts","v1","organizations",":id","memberships">>},
             <<"OrgMemberships.getByOrganizationIdHandler">>),
       Route("POST", {<<"accounts","v1","organizations",":id","memberships">>},
             <<"parseBody", "OrgMemberships.postOrgMembershipHandler">>),
       Route("PATCH", {<<"accounts","v1","org-memberships",":id">>},
             <<"OrgMemberships.patchOrgMembershipHandler">>),
       Route("DELETE", {<<"accounts","v1","org-memberships",":id">>},
             <<"OrgMemberships.deleteOrgMembershipHandler">>),
       Route("GET", {<<"accounts","v1","sessions">>}, <<"Sessions.handleGetAllSessions">>),
       Route("GET", {<<"accounts","v1","users",":id","sessions">>},
             <<"Sessions.handleGetUserSessions">>),
       Route("POST", {<<"accounts","v1","sessions","login","email">>},
             <<"parseBody", "Sessions.handlePostSessionsLoginEmail">>),
       Route("POST", {<<"accounts","v1","sessions","login","password">>},
             <<"parseBody", "Sessions.handlePostSessionsLoginPassword">>),
       Route("POST", {<<"accounts","v1","sessions","login","code">>},
             <<"parseBody", "Sessions.handlePostSessionsLoginCode">>),
       Route("POST", {<<"accounts","v1","sessions","login","totp">>},
             <<"parseBody", "Sessions.handlePostSessionsLoginTotp">>),
       Route("POST", {<<"accounts","v1","sessions","refresh">>},
             <<"parseBody", "Sessions.handlePostSessionsRefresh">>),
       Route("POST", {<<"accounts","v1","sessions","logout">>},
             <<"parseBodyAllowBlank", "Sessions.handlePostSessionsLogout">>),
       Route("ALL", {<<"accounts","v1","*">>}, <<CatchAllHandler>>) >>

\* The request dispatcher: every path, after the accounts module's routes.
DownstreamRoute == Route("ALL", {<<"*">>}, <<ProxyHandler>>)

Routes == AccountsRoutes \o <<DownstreamRoute>>

----------------------------------------------------------------------------
(* Route matching.                                                          *)

IsParam(seg) == seg = ":id"

SegMatch(pseg, seg) == IsParam(pseg) \/ pseg = seg

\* One path pattern against a path: ":id" matches one segment, a final "*" the rest.
PatternMatch(pat, p) ==
    IF Len(pat) > 0 /\ pat[Len(pat)] = "*"
    THEN /\ Len(p) >= Len(pat) - 1
         /\ \A i \in 1..(Len(pat) - 1) : SegMatch(pat[i], p[i])
    ELSE /\ Len(p) = Len(pat)
         /\ \A i \in 1..Len(pat) : SegMatch(pat[i], p[i])

RouteMatch(rt, r) ==
    /\ rt.method \in {"ALL", r.method}
    /\ \E pat \in rt.patterns : PatternMatch(pat, r.path)

\* The first layer at or after index i that matches the request (0 if none).
NextLayer(i, r) ==
    LET hits == {j \in i..Len(Routes) : RouteMatch(Routes[j], r)}
    IN  IF hits = {} THEN 0 ELSE CHOOSE j \in hits : \A k \in hits : j <= k

----------------------------------------------------------------------------
(* The requests of SpecHttp.                                                *)

Methods == {"GET", "POST", "PATCH", "DELETE", "PUT"}

Acc(tail) == <<"accounts", "v1">> \o tail

Paths ==
    { Acc(<<>>), Acc(<<"bogus">>),
      Acc(<<"organizations">>), Acc(<<"organizations","7">>),
      Acc(<<"organizations","7","memberships">>),
      Acc(<<"organizations","7","clients">>),
      Acc(<<"users">>), Acc(<<"users","7">>),
      Acc(<<"users","7","change-password">>),
      Acc(<<"users","7","memberships">>), Acc(<<"users","7","sessions">>),
      Acc(<<"users","7","roles">>),
      Acc(<<"org-memberships">>), Acc(<<"org-memberships","7">>),
      Acc(<<"sessions">>), Acc(<<"sessions","login">>),
      Acc(<<"sessions","login","email">>), Acc(<<"sessions","login","password">>),
      Acc(<<"sessions","login","code">>), Acc(<<"sessions","login","totp">>),
      Acc(<<"sessions","login","sms">>), Acc(<<"sessions","login","code","7">>),
      Acc(<<"sessions","refresh">>), Acc(<<"sessions","logout">>),
      Acc(<<"sessions","logout","7">>),
      <<"accounts">>, <<"accounts","v2","users">>,
      <<"exchange","v1","orders">>, <<"market-data","v1">> }

Requests ==
    [method : Methods, path : Paths, contentType : ContentTypes, rawBody : RawBodies]

NoOutcome == [kind |-> "none", error |-> "", code |-> "", handler |-> ""]
ErrorOutcome(e, c) == [kind |-> "error", error |-> e, code |-> c, handler |-> ""]
HandledOutcome(h) == [kind |-> "handled", error |-> "", code |-> "", handler |-> h]
ForwardedOutcome == [kind |-> "forwarded", error |-> "", code |-> "", handler |-> ProxyHandler]
UnroutedOutcome == [kind |-> "unrouted", error |-> "", code |-> "", handler |-> ""]

HttpIdle ==
    /\ req = [method |-> "GET", path |-> <<>>, contentType |-> NoHeader, rawBody |-> "absent"]
    /\ pc = "idle"
    /\ layer = 0
    /\ hidx = 0
    /\ body = Undefined
    /\ outcome = NoOutcome
    /\ nextCalls = 0
    /\ parserInvoked = FALSE
    /\ handlerInvoked = "none"

HttpInit ==
    /\ req \in Requests
    /\ pc = "route"
    /\ layer = 1
    /\ hidx = 0
    /\ body = Undefined
    /\ outcome = NoOutcome
    /\ nextCalls = 0
    /\ parserInvoked = FALSE
    /\ handlerInvoked = "none"

CurrentHandler == Routes[layer].chain[hidx]

\* next(err): express skips every remaining handler and answers with the error.
NextWithError(e, c) ==
    /\ pc' = "done"
    /\ outcome' = ErrorOutcome(e, c)

\* next(): the following handler of the chain, or the following layers.
NextNoError ==
    IF hidx < Len(Routes[layer].chain)
    THEN /\ hidx' = hidx + 1
         /\ pc' = "chain"
         /\ layer' = layer
    ELSE /\ hidx' = 0
         /\ pc' = "route"
         /\ layer' = layer + 1

\* The router looks for the next matching layer.
Dispatch ==
    /\ pc = "route"
    /\ LET j == NextLayer(layer, req)
       IN  IF j = 0
           THEN /\ pc' = "done"
                /\ outcome' = UnroutedOutcome
                /\ UNCHANGED <<layer, hidx>>
           ELSE /\ layer' = j
                /\ hidx' = 1
                /\ pc' = "chain"
                /\ UNCHANGED outcome
    /\ UNCHANGED <<req, body, nextCalls, parserInvoked, handlerInvoked>>
    /\ UNCHANGED notHttp

\* getParseBodyFunc, lines 14-29: the content-type check, then the parser call.
ParseBodyStart ==
    /\ pc = "chain"
    /\ CurrentHandler \in Middlewares
    /\ IF ContentTypeRejected(req.contentType)
       THEN /\ NextWithError("UnsupportedMediaType", "")
            /\ nextCalls' = nextCalls + 1
            /\ UNCHANGED <<parserInvoked, layer, hidx>>
       ELSE /\ pc' = "json"
            /\ parserInvoked' = TRUE
            /\ UNCHANGED <<outcome, nextCalls, layer, hidx>>
    /\ UNCHANGED <<req, body, handlerInvoked>>
    /\ UNCHANGED notHttp

\* The parser callback without the return in front of next(new E.BadRequest(..)):
\* the callback goes on to the closing next().
ParseBodyCallbackFallsThrough ==
    /\ pc = "json"
    /\ \E res \in JsonParse(req.rawBody) :
         IF res.err
         THEN /\ NextWithError("ParserError", "")
              /\ nextCalls' = nextCalls + 1
              /\ UNCHANGED <<body, layer, hidx>>
         ELSE /\ body' = res.body
              /\ IF BlankRejected(AllowBlankOf(CurrentHandler), res.body)
                 THEN /\ NextWithError("BadRequest", "")
                      /\ nextCalls' = nextCalls + 2
                      /\ UNCHANGED <<layer, hidx>>
                 ELSE /\ NextNoError
                      /\ nextCalls' = nextCalls + 1
                      /\ UNCHANGED outcome
    /\ UNCHANGED <<req, parserInvoked, handlerInvoked>>
    /\ UNCHANGED notHttp

\* getParseBodyFunc, lines 29-48: the parser's callback.
ParseBodyCallback ==
    /\ pc = "json"
    /\ \E res \in JsonParse(req.rawBody) :
         IF res.err
         THEN /\ NextWithError("ParserError", "")
              /\ nextCalls' = nextCalls + 1
              /\ UNCHANGED <<body, layer, hidx>>
         ELSE /\ body' = res.body
              /\ IF BlankRejected(AllowBlankOf(CurrentHandler), res.body)
                 THEN /\ NextWithError("BadRequest", "")
                      /\ nextCalls' = nextCalls + 1
                      /\ UNCHANGED <<layer, hidx>>
                 ELSE /\ NextNoError
                      /\ nextCalls' = nextCalls + 1
                      /\ UNCHANGED outcome
    /\ UNCHANGED <<req, parserInvoked, handlerInvoked>>
    /\ UNCHANGED notHttp

\* A mutant of CatchAll: next() is called without the error.
CatchAllFallsThrough ==
    /\ pc = "chain"
    /\ CurrentHandler = CatchAllHandler
    /\ NextNoError
    /\ UNCHANGED <<req, body, outcome, nextCalls, parserInvoked, handlerInvoked>>
    /\ UNCHANGED notHttp

\* index.ts lines 142-146: the fallthrough handler of the accounts module.
CatchAll ==
    /\ pc = "chain"
    /\ CurrentHandler = CatchAllHandler
    /\ NextWithError("BadRequest", "ACCOUNTS-UNKNOWN-ENDPOINT")
    /\ UNCHANGED <<req, layer, hidx, body, nextCalls, parserInvoked, handlerInvoked>>
    /\ UNCHANGED notHttp

\* A route's own handler (Organizations.*, Users.*, OrgMemberships.*, Sessions.*):
\* it ends the request, with a response or with next(error) of its own.
RouteHandler ==
    /\ pc = "chain"
    /\ CurrentHandler \notin Middlewares \cup {CatchAllHandler, ProxyHandler}
    /\ handlerInvoked' = CurrentHandler
    /\ outcome' = HandledOutcome(CurrentHandler)
    /\ pc' = "done"
    /\ UNCHANGED <<req, layer, hidx, body, nextCalls, parserInvoked>>
    /\ UNCHANGED notHttp

\* The request dispatcher forwards the request downstream.
Proxy ==
    /\ pc = "chain"
    /\ CurrentHandler = ProxyHandler
    /\ outcome' = ForwardedOutcome
    /\ pc' = "done"
    /\ UNCHANGED <<req, layer, hidx, body, nextCalls, parserInvoked, handlerInvoked>>
    /\ UNCHANGED notHttp

HttpNext ==
    \/ Dispatch
    \/ ParseBodyStart
    \/ ParseBodyCallback
    \/ CatchAll
    \/ RouteHandler
    \/ Proxy


----------------------------------------------------------------------------
(* The client handlers: GET and POST /organizations/:orgId/clients.         *)

MaxExecs == 2       \* handler executions in one behaviour
MaxSecrets == 2     \* values randomBytes can return

Execs == 1..MaxExecs

\* createClient line 169
ReqsPerSec == 10

\* ClientRoles.EXTERNAL
EXTERNAL == "external"

RawSecret(i) == <<"raw", i>>
NoSecret == <<"none", 0>>
RawSecrets == {RawSecret(i) : i \in 0..MaxSecrets}

\* bcrypt.hash(secret, 10): a value that is not the secret
BcryptHash(secret) == <<"bcrypt", secret[2]>>

\* The organizations table, which the client handlers only read.
Orgs == {"o1", "o2"}

\* auth of the request: no auth object, or a user with these memberships
Callers == {"anon", "outsider", "reader", "manager"}

Membership(caller, org) ==
    CASE caller = "reader" /\ org = "o1"  -> "read"
      [] caller = "manager" /\ org = "o1" -> "manage"
      [] caller = "manager" /\ org = "o2" -> "read"
      [] OTHER                            -> "none"

RoleLevel(role) ==
    CASE role = "manage" -> 2
      [] role = "read"   -> 1
      [] OTHER           -> 0

\* authorizeCallerForRole(orgId, auth, level, r): the caller's role in the
\* organization is at least the required level
AuthorizedFor(caller, org, level) ==
    /\ RoleLevel(Membership(caller, org)) > 0
    /\ RoleLevel(Membership(caller, org)) >= RoleLevel(level)

\* A client that an earlier createClient left in the store, in organization o2.
LegacyClient ==
    [id |-> 1, organizationId |-> "o2", name |-> "legacy",
     secretBcrypt |-> BcryptHash(RawSecret(0)), reqsPerSec |-> ReqsPerSec]

RoleRow(cid, role) == [clientId |-> cid, roleId |-> role]

ClientIdParams == {0, LegacyClient.id, LegacyClient.id + 1}

ClientReq(k, caller, org, cid, valid) ==
    [kind |-> k, caller |-> caller, orgId |-> org, clientId |-> cid, bodyValid |-> valid]

\* The requests the handlers are called with: every authenticated caller on
\* every existing organization, and one request for each check that fails
\* before the authorization.
ClientRequests ==
    {ClientReq("get", c, o, i, TRUE) :
        c \in Callers \ {"anon"}, o \in Orgs, i \in ClientIdParams}
    \cup {ClientReq("post", c, o, 0, TRUE) : c \in Callers \ {"anon"}, o \in Orgs}
    \cup {ClientReq(k, "anon", "o1", 0, TRUE) : k \in {"get", "post"}}
    \cup {ClientReq(k, "manager", o, 0, TRUE) : k \in {"get", "post"}, o \in {"", "o9"}}
    \cup {ClientReq("post", "manager", "o1", 0, FALSE)}

NoRequest == [kind |-> "none", caller |-> "anon", orgId |-> "", clientId |-> 0,
              bodyValid |-> TRUE]
NoLocal == [secret |-> NoSecret, rows |-> {}]
NoCout == [kind |-> "none", status |-> 0, error |-> "", data |-> {}]
NextError(e) == [kind |-> "next", status |-> 0, error |-> e, data |-> {}]
Send(st, d) == [kind |-> "send", status |-> st, error |-> "", data |-> d]

ClientsIdle ==
    /\ creq = [e \in Execs |-> NoRequest]
    /\ cpc = [e \in Execs |-> "idle"]
    /\ clocal = [e \in Execs |-> NoLocal]
    /\ cout = [e \in Execs |-> NoCout]
    /\ clients = {}
    /\ clientRoles = {}
    /\ nextId = 0
    /\ authzOk = [e \in Execs |-> "none"]
    /\ writes = {}

ClientsInit ==
    /\ creq = [e \in Execs |-> NoRequest]
    /\ cpc = [e \in Execs |-> "idle"]
    /\ clocal = [e \in Execs |-> NoLocal]
    /\ cout = [e \in Execs |-> NoCout]
    /\ clients = {LegacyClient}
    /\ clientRoles = {RoleRow(LegacyClient.id, EXTERNAL)}
    /\ nextId = LegacyClient.id + 1
    /\ authzOk = [e \in Execs |-> "none"]
    /\ writes = {}

\* catch (e) { next(e) }: the execution ends with next(e) and nothing else.
Throw(e, err) ==
    /\ cout' = [cout EXCEPT ![e] = NextError(err)]
    /\ cpc' = [cpc EXCEPT ![e] = "done"]

\* T.Clients.dbToApi(client, log): every field of the record it is given may
\* reach the API record; roles are filled in by addRoles.
dbToApi(row, secret) ==
    [id |-> row.id, organizationId |-> row.organizationId, name |-> row.name,
     secretBcrypt |-> row.secretBcrypt, reqsPerSec |-> row.reqsPerSec,
     secret |-> secret, roles |-> {}]

\* addRoles, lines 204-207: the roles of one client among the fetched role rows
add(client, roles) ==
    [client EXCEPT !.roles = {row.roleId : row \in {x \in roles : x.clientId = client.id}}]

\* A handler is called.  It runs to its first await: the auth assertions, the
\* orgId parameter and, in postClientHandler, the body validation
\* (getClientsForOrgHandler lines 31-49, postClientHandler lines 100-125).
Arrive(e) ==
    /\ cpc[e] = "idle"
    /\ \E q \in ClientRequests :
         /\ creq' = [creq EXCEPT ![e] = q]
         /\ IF q.caller = "anon"
            THEN Throw(e, "AuthRequired")
            ELSE IF q.orgId = ""
            THEN Throw(e, "InternalServerError")
            ELSE IF q.kind = "post" /\ ~q.bodyValid
            THEN Throw(e, "InvalidBodyError")
            ELSE /\ cpc' = [cpc EXCEPT ![e] = "getOrg"]
                 /\ UNCHANGED cout
    /\ UNCHANGED <<clocal, clients, clientRoles, nextId, authzOk, writes>>
    /\ UNCHANGED notClients

\* await r.io.get("organizations", { id: organizationId }, log, true)
\* (lines 49 and 125)
OrgExists(e) ==
    /\ cpc[e] = "getOrg"
    /\ IF creq[e].orgId \in Orgs
       THEN /\ cpc' = [cpc EXCEPT ![e] = "authorize"]
            /\ UNCHANGED cout
       ELSE Throw(e, "NotFound")
    /\ UNCHANGED <<creq, clocal, clients, clientRoles, nextId, authzOk, writes>>
    /\ UNCHANGED notClients

\* getClientsForOrgHandler line 55
GetAuthorize(e) ==
    /\ cpc[e] = "authorize"
    /\ creq[e].kind = "get"
    /\ IF AuthorizedFor(creq[e].caller, creq[e].orgId, "read")
       THEN /\ authzOk' = [authzOk EXCEPT ![e] = "read"]
            /\ cpc' = [cpc EXCEPT ![e] = "fetch"]
            /\ UNCHANGED cout
       ELSE /\ Throw(e, "Forbidden")
            /\ UNCHANGED authzOk
    /\ UNCHANGED <<creq, clocal, clients, clientRoles, nextId, writes>>
    /\ UNCHANGED notClients

\* A mutant of PostAuthorize: createClient runs before the authorization result
\* is looked at.
PostAuthorizeSkipped(e) ==
    /\ cpc[e] = "authorize"
    /\ creq[e].kind = "post"
    /\ cpc' = [cpc EXCEPT ![e] = "create"]
    /\ UNCHANGED <<creq, clocal, cout, clients, clientRoles, nextId, authzOk, writes>>
    /\ UNCHANGED notClients

\* postClientHandler line 128
PostAuthorize(e) ==
    /\ cpc[e] = "authorize"
    /\ creq[e].kind = "post"
    /\ IF AuthorizedFor(creq[e].caller, creq[e].orgId, "manage")
       THEN /\ authzOk' = [authzOk EXCEPT ![e] = "manage"]
            /\ cpc' = [cpc EXCEPT ![e] = "create"]
            /\ UNCHANGED cout
       ELSE /\ Throw(e, "Forbidden")
            /\ UNCHANGED authzOk
    /\ UNCHANGED <<creq, clocal, clients, clientRoles, nextId, writes>>
    /\ UNCHANGED notClients

\* A mutant of NewClientPayload: the raw secret is saved.
NewClientPayloadRaw(org, name, secret) ==
    [organizationId |-> org, name |-> name, secretBcrypt |-> secret,
     reqsPerSec |-> ReqsPerSec]

\* createClient lines 163-169: { ...newClient, secretBcrypt, reqsPerSec: 10 }
NewClientPayload(org, name, secret) ==
    [organizationId |-> org, name |-> name, secretBcrypt |-> BcryptHash(secret),
     reqsPerSec |-> ReqsPerSec]

\* The record io.save("clients", payload, ..) returns: the payload with its id.
Saved(payload, id) ==
    [id |-> id, organizationId |-> payload.organizationId, name |-> payload.name,
     secretBcrypt |-> payload.secretBcrypt, reqsPerSec |-> payload.reqsPerSec]

\* createClient lines 162-172: the secret is drawn and hashed, the client saved.
\* The save can fail, and createClient then throws.
CreateClientSaveClient(e) ==
    /\ cpc[e] = "create"
    /\ \/ \E i \in 1..MaxSecrets :
            LET payload == NewClientPayload(creq[e].orgId, "app", RawSecret(i))
                row == Saved(payload, nextId)
            IN  /\ clients' = clients \cup {row}
                /\ nextId' = nextId + 1
                /\ writes' = writes \cup
                       {[exec |-> e, table |-> "clients", payload |-> payload]}
                /\ clocal' = [clocal EXCEPT ![e] =
                                  [secret |-> RawSecret(i), rows |-> {row}]]
                /\ cpc' = [cpc EXCEPT ![e] = "saveRoles"]
                /\ UNCHANGED cout
       \/ /\ Throw(e, "StoreError")
          /\ UNCHANGED <<clients, nextId, writes, clocal>>
    /\ UNCHANGED <<creq, clientRoles, authzOk>>
    /\ UNCHANGED notClients

\* createClient lines 175-183: the EXTERNAL role row is saved and the client
\* returned with its secret.  The save can fail, and createClient then throws.
CreateClientSaveRoles(e) ==
    /\ cpc[e] = "saveRoles"
    /\ \/ \E row \in clocal[e].rows :
            LET payload == RoleRow(row.id, EXTERNAL)
            IN  /\ clientRoles' = clientRoles \cup {payload}
                /\ writes' = writes \cup
                       {[exec |-> e, table |-> "client-roles", payload |-> payload]}
                /\ cpc' = [cpc EXCEPT ![e] = "addRoles"]
                /\ UNCHANGED cout
       \/ /\ Throw(e, "StoreError")
          /\ UNCHANGED <<clientRoles, writes>>
    /\ UNCHANGED <<creq, clocal, clients, nextId, authzOk>>
    /\ UNCHANGED notClients

\* postClientHandler lines 133-142: addRoles reads the role rows, and the 201
\* response carries the client with its secret.
PostRespond(e) ==
    /\ cpc[e] = "addRoles"
    /\ creq[e].kind = "post"
    /\ cout' = [cout EXCEPT ![e] =
          Send(201, {[add(dbToApi(row, clocal[e].secret), clientRoles)
                         EXCEPT !.secret = clocal[e].secret] : row \in clocal[e].rows})]
    /\ cpc' = [cpc EXCEPT ![e] = "done"]
    /\ UNCHANGED <<creq, clocal, clients, clientRoles, nextId, authzOk, writes>>
    /\ UNCHANGED notClients

\* The single-client read without the comparison of the client's organization
\* with the organization of the path.
GetFetchUnscoped(e) ==
    /\ cpc[e] = "fetch"
    /\ IF creq[e].clientId # 0
       THEN LET found == {c \in clients : c.id = creq[e].clientId}
            IN  IF found = {}
                THEN /\ Throw(e, "NotFound")
                     /\ UNCHANGED clocal
                ELSE /\ clocal' = [clocal EXCEPT ![e].rows = found]
                     /\ cpc' = [cpc EXCEPT ![e] = "addRoles"]
                     /\ UNCHANGED cout
       ELSE /\ clocal' = [clocal EXCEPT ![e].rows =
                              {c \in clients : c.organizationId = creq[e].orgId}]
            /\ cpc' = [cpc EXCEPT ![e] = "addRoles"]
            /\ UNCHANGED cout
    /\ UNCHANGED <<creq, clients, clientRoles, nextId, authzOk, writes>>
    /\ UNCHANGED notClients

\* getClientsForOrgHandler lines 57-65 and 76: the client, or the clients of the
\* organization, are read from the store.
GetFetch(e) ==
    /\ cpc[e] = "fetch"
    /\ IF creq[e].clientId # 0
       THEN LET found == {c \in clients : c.id = creq[e].clientId}
            IN  IF found = {} \/ \E c \in found : c.organizationId # creq[e].orgId
                THEN /\ Throw(e, "NotFound")
                     /\ UNCHANGED clocal
                ELSE /\ clocal' = [clocal EXCEPT ![e].rows = found]
                     /\ cpc' = [cpc EXCEPT ![e] = "addRoles"]
                     /\ UNCHANGED cout
       ELSE /\ clocal' = [clocal EXCEPT ![e].rows =
                              {c \in clients : c.organizationId = creq[e].orgId}]
            /\ cpc' = [cpc EXCEPT ![e] = "addRoles"]
            /\ UNCHANGED cout
    /\ UNCHANGED <<creq, clients, clientRoles, nextId, authzOk, writes>>
    /\ UNCHANGED notClients

\* getClientsForOrgHandler lines 66-73 and 77-87: addRoles reads the role rows
\* and the 200 response is sent.
GetRespond(e) ==
    /\ cpc[e] = "addRoles"
    /\ creq[e].kind = "get"
    /\ cout' = [cout EXCEPT ![e] =
          Send(200, {add(dbToApi(row, NoSecret), clientRoles) : row \in clocal[e].rows})]
    /\ cpc' = [cpc EXCEPT ![e] = "done"]
    /\ UNCHANGED <<creq, clocal, clients, clientRoles, nextId, authzOk, writes>>
    /\ UNCHANGED notClients

ClientsNext ==
    \E e \in Execs :
        \/ Arrive(e)
        \/ OrgExists(e)
        \/ GetAuthorize(e)
        \/ PostAuthorize(e)
        \/ CreateClientSaveClient(e)
        \/ CreateClientSaveRoles(e)
        \/ PostRespond(e)
        \/ GetFetch(e)
        \/ GetRespond(e)

----------------------------------------------------------------------------
(* Sessions: login-code redemption, refresh and logout.  The handlers        *)
(* (Sessions.handlePostSessionsLoginCode, ..Refresh, ..Logout) are           *)
(* registered by index.ts lines 122-138.  Their store transitions follow     *)
(* the specification's Token Lifecycle Manager and Login State Machine, and  *)
(* the README's TODO on session-tokens (README lines 155-158): consuming or  *)
(* invalidating a refresh token leaves the associated session token usable.  *)

MaxSubs == 3        \* submissions in one behaviour
MaxCodes == 1       \* verification codes delivered

Subs == 1..MaxSubs
Codes == 1..MaxCodes
\* Each submission issues at most one session.
SessionIds == 1..MaxSubs

Cred(k, n) == [kind |-> k, n |-> n]

\* What a submission can carry: a login code, a refresh value (refresh,
\* logout), or a session token (logout, an authenticated request).  A client
\* presents a value of a pair that was issued, or a value that never was (0).
Submissions ==
    LET known == {0} \cup {n \in SessionIds : sess[n].issued}
    IN  [op : {"code"}, cred : {Cred("code", c) : c \in Codes}]
        \cup [op : {"refresh"}, cred : {Cred("refresh", n) : n \in known}]
        \cup [op : {"logout"}, cred : {Cred(k, n) : k \in {"token", "refresh"}, n \in known}]
        \cup [op : {"request"}, cred : {Cred("token", n) : n \in known}]

\* The pair a credential belongs to was issued.
Known(n) == n \in SessionIds /\ sess[n].issued

NoSession == [issued |-> FALSE, tok |-> "none", ref |-> "none", parent |-> 0]
NewSession(parent) == [issued |-> TRUE, tok |-> "valid", ref |-> "valid", parent |-> parent]

NoSub == [op |-> "none", cred |-> Cred("none", 0), pc |-> "idle", ok |-> FALSE,
          reason |-> "", issued |-> 0]

SessionsIdle ==
    /\ codeState = [c \in Codes |-> "valid"]
    /\ codeExpired = [c \in Codes |-> FALSE]
    /\ sess = [n \in SessionIds |-> NoSession]
    /\ subs = [i \in Subs |-> NoSub]

SessionsInit == SessionsIdle

\* The number of the next session to issue.
FreeSession == CHOOSE n \in SessionIds : ~sess[n].issued /\ \A k \in 1..(n - 1) : sess[k].issued

Succeed(i, n) == [subs EXCEPT ![i].pc = "done", ![i].ok = TRUE, ![i].issued = n]
Fail(i, why) == [subs EXCEPT ![i].pc = "done", ![i].ok = FALSE, ![i].reason = why]

\* A request arrives and is handed to its handler.
Submit(i) ==
    /\ subs[i].pc = "idle"
    /\ \E q \in Submissions :
         subs' = [subs EXCEPT ![i].op = q.op, ![i].cred = q.cred, ![i].pc = "pending"]
    /\ UNCHANGED <<codeState, codeExpired, sess>>
    /\ UNCHANGED notSessions

\* A verification code's expiry passes.
Expire(c) ==
    /\ ~codeExpired[c]
    /\ codeExpired' = [codeExpired EXCEPT ![c] = TRUE]
    /\ UNCHANGED <<codeState, sess, subs>>
    /\ UNCHANGED notSessions

\* A mutant of RedeemCode: the code is checked but not marked consumed.
RedeemCodeUnmarked(i) ==
    /\ subs[i].pc = "pending"
    /\ subs[i].op = "code"
    /\ LET c == subs[i].cred.n
       IN  IF codeExpired[c]
           THEN subs' = Fail(i, "expired") /\ UNCHANGED sess
           ELSE IF codeState[c] = "consumed"
           THEN subs' = Fail(i, "consumed") /\ UNCHANGED sess
           ELSE /\ sess' = [sess EXCEPT ![FreeSession] = NewSession(0)]
                /\ subs' = Succeed(i, FreeSession)
    /\ UNCHANGED <<codeState, codeExpired>>
    /\ UNCHANGED notSessions

\* The 'code' login step: an atomic check-and-consume of the verification code,
\* and on success a session is issued.
RedeemCode(i) ==
    /\ subs[i].pc = "pending"
    /\ subs[i].op = "code"
    /\ LET c == subs[i].cred.n
       IN  IF codeExpired[c]
           THEN subs' = Fail(i, "expired") /\ UNCHANGED <<codeState, sess>>
           ELSE IF codeState[c] = "consumed"
           THEN subs' = Fail(i, "consumed") /\ UNCHANGED <<codeState, sess>>
           ELSE /\ codeState' = [codeState EXCEPT ![c] = "consumed"]
                /\ sess' = [sess EXCEPT ![FreeSession] = NewSession(0)]
                /\ subs' = Succeed(i, FreeSession)
    /\ UNCHANGED codeExpired
    /\ UNCHANGED notSessions

\* POST sessions/refresh: the refresh value is checked and consumed and a new
\* pair issued in one step.  The session token of the old pair is not touched.
Refresh(i) ==
    /\ subs[i].pc = "pending"
    /\ subs[i].op = "refresh"
    /\ LET n == subs[i].cred.n
       IN  IF Known(n) /\ sess[n].ref = "valid"
           THEN /\ sess' = [sess EXCEPT ![n].ref = "consumed",
                                        ![FreeSession] = NewSession(n)]
                /\ subs' = Succeed(i, FreeSession)
           ELSE /\ subs' = Fail(i, "AuthenticationError")
                /\ UNCHANGED sess
    /\ UNCHANGED <<codeState, codeExpired>>
    /\ UNCHANGED notSessions

\* POST sessions/logout with either value.  With the session token both values
\* of the pair are invalidated; with the refresh value the refresh value is, and
\* the session token is not touched.  Repeating it succeeds.
Logout(i) ==
    /\ subs[i].pc = "pending"
    /\ subs[i].op = "logout"
    /\ LET n == subs[i].cred.n
           revoked(v) == IF v = "valid" THEN "revoked" ELSE v
       IN  IF ~Known(n)
           THEN /\ subs' = Fail(i, "AuthenticationError")
                /\ UNCHANGED sess
           ELSE /\ subs' = Succeed(i, 0)
                /\ sess' = IF subs[i].cred.kind = "token"
                           THEN [sess EXCEPT ![n].tok = revoked(sess[n].tok),
                                             ![n].ref = revoked(sess[n].ref)]
                           ELSE [sess EXCEPT ![n].ref = revoked(sess[n].ref)]
    /\ UNCHANGED <<codeState, codeExpired>>
    /\ UNCHANGED notSessions

\* validateToken: a request authenticates with a session token.
Authenticate(i) ==
    /\ subs[i].pc = "pending"
    /\ subs[i].op = "request"
    /\ LET n == subs[i].cred.n
       IN  subs' = IF Known(n) /\ sess[n].tok = "valid"
                   THEN Succeed(i, 0)
                   ELSE Fail(i, "AuthenticationError")
    /\ UNCHANGED <<codeState, codeExpired, sess>>
    /\ UNCHANGED notSessions

SessionsNext ==
    \/ \E i \in Subs : Submit(i)
    \/ \E c \in Codes : Expire(c)
    \/ \E i \in Subs : RedeemCode(i)
    \/ \E i \in Subs : Refresh(i)
    \/ \E i \in Subs : Logout(i)
    \/ \E i \in Subs : Authenticate(i)

----------------------------------------------------------------------------
(* The mock cache.                                                          *)

MaxCalls == 3       \* cache.get calls in one behaviour
MaxWrites == 2      \* writes to the data behind one key

Calls == 1..MaxCalls
Keys == {"k1", "k2"}

NoCall == [state |-> "idle", key |-> "", seen |-> 0, value |-> 0]

CacheIdle ==
    /\ cdata = [k \in Keys |-> 0]
    /\ ccalls = [c \in Calls |-> NoCall]
    /\ computeCount = [k \in Keys |-> 0]
    /\ getCount = [k \in Keys |-> 0]

CacheInit == CacheIdle

\* A mutant of Get: a call for a key whose computation is in flight awaits that
\* computation instead of invoking the compute function.
GetCoalescing(c, k) ==
    /\ ccalls[c].state = "idle"
    /\ getCount' = [getCount EXCEPT ![k] = @ + 1]
    /\ LET inflight == {d \in Calls : ccalls[d].state = "computing" /\ ccalls[d].key = k}
       IN  IF inflight = {}
           THEN /\ computeCount' = [computeCount EXCEPT ![k] = @ + 1]
                /\ ccalls' = [ccalls EXCEPT ![c] =
                      [state |-> "computing", key |-> k, seen |-> cdata[k],
                       value |-> cdata[k]]]
           ELSE /\ computeCount' = computeCount
                /\ ccalls' = [ccalls EXCEPT ![c] =
                      [state |-> "computing", key |-> k, seen |-> cdata[k],
                       value |-> ccalls[CHOOSE d \in inflight : TRUE].value]]
    /\ UNCHANGED cdata
    /\ UNCHANGED notCache

\* mockCache get, lines 12-19: return v().  The compute function is invoked on
\* every call and reads the data behind the key.
Get(c, k) ==
    /\ ccalls[c].state = "idle"
    /\ getCount' = [getCount EXCEPT ![k] = @ + 1]
    /\ computeCount' = [computeCount EXCEPT ![k] = @ + 1]
    /\ ccalls' = [ccalls EXCEPT ![c] =
          [state |-> "computing", key |-> k, seen |-> cdata[k], value |-> cdata[k]]]
    /\ UNCHANGED cdata
    /\ UNCHANGED notCache

\* The promise returned by v() resolves.
Resolve(c) ==
    /\ ccalls[c].state = "computing"
    /\ ccalls' = [ccalls EXCEPT ![c].state = "done"]
    /\ UNCHANGED <<cdata, computeCount, getCount>>
    /\ UNCHANGED notCache

\* mockCache clear, line 20: clear(k?: string) {}
Clear(k) ==
    /\ UNCHANGED <<cdata, ccalls, computeCount, getCount>>
    /\ UNCHANGED notCache

\* A write to the data behind a key, followed by cache.clear(key).
Write(k) ==
    /\ cdata[k] < MaxWrites
    /\ cdata' = [cdata EXCEPT ![k] = @ + 1]
    /\ UNCHANGED <<ccalls, computeCount, getCount>>
    /\ UNCHANGED notCache

CacheNext ==
    \/ \E c \in Calls, k \in Keys : Get(c, k)
    \/ \E c \in Calls : Resolve(c)
    \/ \E k \in Keys : Clear(k)
    \/ \E k \in Keys : Write(k)

----------------------------------------------------------------------------
(* The specifications.                                                      *)

InitHttp == HttpInit /\ ClientsIdle /\ SessionsIdle /\ CacheIdle
SpecHttp == InitHttp /\ [][HttpNext]_vars

InitClients == ClientsInit /\ HttpIdle /\ SessionsIdle /\ CacheIdle
SpecClients == InitClients /\ [][ClientsNext]_vars

InitSessions == SessionsInit /\ HttpIdle /\ ClientsIdle /\ CacheIdle
SpecSessions == InitSessions /\ [][SessionsNext]_vars

InitCache == CacheInit /\ HttpIdle /\ ClientsIdle /\ SessionsIdle
SpecCache == InitCache /\ [][CacheNext]_vars

----------------------------------------------------------------------------
(* Claims about the route table and the body-parsing middleware (SpecHttp). *)

IsAccountsPath(p) == Len(p) >= 2 /\ p[1] = "accounts" /\ p[2] = "v1"

IsCatchAll(rt) == rt.chain = <<CatchAllHandler>>

\* The registered accounts routes, other than the catch-all, that match the request.
RegisteredMatches(r) ==
    {i \in 1..Len(AccountsRoutes) :
        ~IsCatchAll(AccountsRoutes[i]) /\ RouteMatch(AccountsRoutes[i], r)}

InFlight == pc # "idle"
Done == pc = "done"

BadRequestOutcome == ErrorOutcome("BadRequest", "")
UnknownEndpoint == ErrorOutcome("BadRequest", "ACCOUNTS-UNKNOWN-ENDPOINT")
LogoutHandler == "Sessions.handlePostSessionsLogout"

BlankRaw == req.rawBody \in {"absent", "emptyObject"}

OnLogoutRoute == req.method = "POST" /\ req.path = Acc(<<"sessions", "logout">>)

\* The request matches a route whose chain starts with parseBody.
OnParseBodyRoute ==
    \E i \in RegisteredMatches(req) : AccountsRoutes[i].chain[1] = "parseBody"

\* C6: on every registered POST and PATCH route, a request whose Content-Type is
\* missing or is not application/json is rejected with UnsupportedMediaType, and
\* neither the JSON parser nor the route's handler is invoked.
C6_BodyRoutesRejectOtherMediaTypes ==
    \A i \in RegisteredMatches(req) :
        ( /\ InFlight
          /\ AccountsRoutes[i].method \in {"POST", "PATCH"}
          /\ ContentTypeRejected(req.contentType) )
        => /\ ~parserInvoked
           /\ handlerInvoked = "none"
           /\ Done => outcome = ErrorOutcome("UnsupportedMediaType", "")

\* C7 as stated: a logout request with a blank body reaches the logout handler,
\* and on every parseBody route a blank body is rejected with BadRequest without
\* the handler being invoked.
C7_BlankBodyAsStated ==
    /\ (InFlight /\ OnLogoutRoute /\ BlankRaw /\ Done)
          => handlerInvoked = LogoutHandler
    /\ (InFlight /\ OnParseBodyRoute /\ BlankRaw)
          => /\ handlerInvoked = "none"
             /\ Done => outcome = BadRequestOutcome

\* C7 as amended: a logout request with a blank body and a Content-Type of
\* application/json (in any letter case) reaches the logout handler, and without
\* that Content-Type it is rejected with UnsupportedMediaType; on every parseBody
\* route a blank body never reaches the handler: it is rejected with
\* UnsupportedMediaType when the Content-Type is missing or not application/json,
\* and with BadRequest otherwise.
C7_BlankBodyAmended ==
    /\ (InFlight /\ OnLogoutRoute /\ BlankRaw /\ Done)
          => IF ContentTypeRejected(req.contentType)
             THEN /\ handlerInvoked = "none"
                  /\ outcome = ErrorOutcome("UnsupportedMediaType", "")
             ELSE /\ handlerInvoked = LogoutHandler
                  /\ outcome = HandledOutcome(LogoutHandler)
    /\ (InFlight /\ OnParseBodyRoute /\ BlankRaw)
          => /\ handlerInvoked = "none"
             /\ Done => outcome = IF ContentTypeRejected(req.contentType)
                                  THEN ErrorOutcome("UnsupportedMediaType", "")
                                  ELSE BadRequestOutcome

\* C7 witness: a logout request without a body has run the logout handler, the
\* parser having left req.body undefined.
C7_Witness ==
    /\ Done
    /\ OnLogoutRoute
    /\ req.rawBody = "absent"
    /\ body = Undefined
    /\ parserInvoked
    /\ handlerInvoked = LogoutHandler

\* C8: a request under /accounts/v1/ that matches no registered route and method
\* ends in the catch-all, which is the last of the accounts routes, with exactly
\* BadRequest ACCOUNTS-UNKNOWN-ENDPOINT: no route handler runs and nothing is
\* forwarded downstream; only paths outside /accounts/v1/ are forwarded.
C8_UnknownAccountsEndpoint ==
    /\ (InFlight /\ IsAccountsPath(req.path) /\ RegisteredMatches(req) = {})
          => /\ handlerInvoked = "none"
             /\ ~parserInvoked
             /\ outcome.kind \in {"none", "error"}
             /\ Done => outcome = UnknownEndpoint
    /\ outcome.kind = "forwarded" => ~IsAccountsPath(req.path)
    /\ \A i \in 1..Len(AccountsRoutes) :
          IsCatchAll(AccountsRoutes[i]) <=> i = Len(AccountsRoutes)

\* C8 witness: POST /accounts/v1/sessions/login/sms has ended in the catch-all.
C8_Witness ==
    /\ Done
    /\ req.method = "POST"
    /\ req.path = Acc(<<"sessions", "login", "sms">>)
    /\ outcome = UnknownEndpoint

\* The router has entered a chain that starts with the body-parsing middleware.
MiddlewareEntered == hidx >= 1 /\ Routes[layer].chain[1] \in Middlewares

\* The middleware, and the parser callback if the parser was called, returned.
MiddlewareReturned == MiddlewareEntered /\ (hidx > 1 \/ pc = "done")

\* C12: on every path through the body-parsing middleware it calls next exactly
\* once.  It has not called next while it, or the parser, is still to run; once
\* it has returned it has called next once and never twice: next(error) on a
\* rejected content type (the parser is not called), on a parser error and on
\* a rejected blank body, none of which lets a handler of the chain run, and
\* next() once on acceptance, which passes the request to the following handler
\* of the chain.  A request that enters no such chain sees no call at all.
C12_NextCalledExactlyOnce ==
    /\ nextCalls \in {0, 1}
    /\ ~MiddlewareEntered => nextCalls = 0
    /\ (MiddlewareEntered /\ ~MiddlewareReturned) =>
          /\ nextCalls = 0
          /\ outcome = NoOutcome
          /\ handlerInvoked = "none"
          /\ pc = "json" <=> parserInvoked
    /\ MiddlewareReturned =>
          /\ nextCalls = 1
          /\ IF ContentTypeRejected(req.contentType)
             THEN /\ ~parserInvoked
                  /\ hidx = 1
                  /\ handlerInvoked = "none"
                  /\ outcome = ErrorOutcome("UnsupportedMediaType", "")
             ELSE /\ parserInvoked
                  /\ IF hidx = 1
                     THEN /\ handlerInvoked = "none"
                          /\ outcome \in {ErrorOutcome("ParserError", ""), BadRequestOutcome}
                          /\ outcome = BadRequestOutcome
                                => BlankRejected(AllowBlankOf(Routes[layer].chain[1]), body)
                     ELSE /\ hidx = 2
                          /\ ~BlankRejected(AllowBlankOf(Routes[layer].chain[1]), body)
                          /\ outcome.kind # "error"
                          /\ handlerInvoked \in {"none", Routes[layer].chain[2]}
                          /\ Done => handlerInvoked = Routes[layer].chain[2]

\* C12 witness: the parser called back with a blank body on a parseBody route,
\* and the request ended with BadRequest after one call of next.
C12_Witness ==
    /\ Done
    /\ MiddlewareReturned
    /\ Routes[layer].chain[1] = "parseBody"
    /\ parserInvoked
    /\ body \in {Undefined, Obj({})}
    /\ outcome = BadRequestOutcome
    /\ handlerInvoked = "none"
    /\ nextCalls = 1

----------------------------------------------------------------------------
(* Claims about the client handlers (SpecClients).                          *)

WritesOf(e) == {w \in writes : w.exec = e}

\* C1: a 200 response of getClientsForOrgHandler is sent only after
\* authorizeCallerForRole(orgId, auth, "read") succeeded, and postClientHandler
\* saves nothing unless authorizeCallerForRole(orgId, auth, "manage") succeeded
\* first; an execution whose authorization (or an earlier check) failed leaves
\* the store as it was and ends with next(error) alone.
C1_AuthorizationGates ==
    /\ \A e \in Execs :
         /\ cout[e].kind = "send" =>
               /\ cpc[e] = "done"
               /\ IF creq[e].kind = "get"
                  THEN /\ cout[e].status = 200
                       /\ authzOk[e] = "read"
                       /\ AuthorizedFor(creq[e].caller, creq[e].orgId, "read")
                  ELSE /\ cout[e].status = 201
                       /\ authzOk[e] = "manage"
         /\ WritesOf(e) # {} =>
               /\ creq[e].kind = "post"
               /\ authzOk[e] = "manage"
               /\ AuthorizedFor(creq[e].caller, creq[e].orgId, "manage")
         /\ (cpc[e] = "done" /\ authzOk[e] = "none") =>
               /\ WritesOf(e) = {}
               /\ cout[e].kind = "next"
               /\ cout[e].data = {}
    \* the store holds nothing but what the logged saves put there
    /\ \A c \in clients \ {LegacyClient} :
         \E w \in writes : /\ w.table = "clients"
                           /\ Saved(w.payload, c.id) = c
                           /\ authzOk[w.exec] = "manage"
    /\ \A row \in clientRoles \ {RoleRow(LegacyClient.id, EXTERNAL)} :
         \E w \in writes : /\ w.table = "client-roles"
                           /\ w.payload = row
                           /\ authzOk[w.exec] = "manage"

\* C1 witness: one POST was refused by the authorization and wrote nothing,
\* while another was authorized, saved a client and its role, and answered 201.
C1_Witness ==
    \E e1, e2 \in Execs :
        /\ creq[e1].kind = "post"
        /\ cout[e1] = NextError("Forbidden")
        /\ WritesOf(e1) = {}
        /\ creq[e2].kind = "post"
        /\ cout[e2].kind = "send"
        /\ {w.table : w \in WritesOf(e2)} = {"clients", "client-roles"}

\* C5: every save of createClient writes the bcrypt hash and never the raw
\* secret; the raw secret is carried only by the 201 response of the POST that
\* created the client, and no response of getClientsForOrgHandler carries one.
C5_SecretNeverStored ==
    /\ \A w \in writes :
         w.table = "clients" =>
            /\ w.payload.secretBcrypt \notin RawSecrets
            /\ \E sec \in RawSecrets : w.payload.secretBcrypt = BcryptHash(sec)
    /\ \A c \in clients : c.secretBcrypt \notin RawSecrets
    /\ \A e \in Execs : \A d \in cout[e].data :
         IF creq[e].kind = "get"
         THEN /\ d.secret = NoSecret
              /\ d.secretBcrypt \notin RawSecrets
         ELSE /\ cout[e].status = 201
              /\ d.secret \in RawSecrets
              /\ d.secret = clocal[e].secret
              /\ d.secretBcrypt = BcryptHash(d.secret)
              /\ \E w \in WritesOf(e) : /\ w.table = "clients"
                                        /\ Saved(w.payload, d.id) \in clients

\* C5 witness: a POST answered 201 with the raw secret, and a GET then listed
\* the same client without it.
C5_Witness ==
    \E e1, e2 \in Execs :
        /\ creq[e1].kind = "post"
        /\ cout[e1].status = 201
        /\ creq[e2].kind = "get"
        /\ cout[e2].status = 200
        /\ \E d1 \in cout[e1].data, d2 \in cout[e2].data :
              /\ d1.id = d2.id
              /\ d1.secret \in RawSecrets
              /\ d2.secret = NoSecret

\* C9: in every reachable state of the store every persisted client has its
\* EXTERNAL role row, and a createClient that returned leaves the new client
\* with exactly the role set {EXTERNAL}.
C9_EveryClientHasExternalRole ==
    /\ \A c \in clients : RoleRow(c.id, EXTERNAL) \in clientRoles
    /\ \A e \in Execs : \A d \in cout[e].data :
         creq[e].kind = "post" => d.roles = {EXTERNAL}

IsSingleRead(e) == creq[e].kind = "get" /\ creq[e].clientId # 0

\* The client named by the request is stored under another organization than
\* the one of the request's path.
InOtherOrganization(e) ==
    \E c \in clients : /\ c.id = creq[e].clientId
                       /\ c.organizationId # creq[e].orgId

\* C11: the single-client read is scoped to the organization of the path.
\* getClientsForOrgHandler called with an orgId and a client id sends 200 only
\* with the one client of that id, whose organizationId is the orgId the caller
\* was authorized to read; when the client exists but belongs to another
\* organization, an execution that passed the authorization ends with
\* next(NotFound), and no execution, whatever the caller's role in the
\* organization of the path, sends any data of that client.
C11_SingleReadScopedToOrganization ==
    \A e \in Execs :
        IsSingleRead(e) =>
            /\ cout[e].kind = "send" =>
                  /\ cout[e].status = 200
                  /\ authzOk[e] = "read"
                  /\ AuthorizedFor(creq[e].caller, creq[e].orgId, "read")
                  /\ Cardinality(cout[e].data) = 1
                  /\ \A d \in cout[e].data :
                        /\ d.id = creq[e].clientId
                        /\ d.organizationId = creq[e].orgId
                        /\ \E c \in clients : /\ c.id = d.id
                                              /\ c.organizationId = creq[e].orgId
            /\ InOtherOrganization(e) =>
                  /\ cout[e].kind # "send"
                  /\ cout[e].data = {}
                  /\ clocal[e].rows = {}
                  /\ (cpc[e] = "done" /\ authzOk[e] = "read")
                        => cout[e] = NextError("NotFound")

\* C11 witness: a caller who manages o1 asked for the client of o2 under the
\* path of o1 and got NotFound, while the same client was sent to a caller who
\* asked for it under the path of o2.
C11_Witness ==
    \E e1, e2 \in Execs :
        /\ IsSingleRead(e1)
        /\ creq[e1].caller = "manager"
        /\ creq[e1].orgId = "o1"
        /\ creq[e1].clientId = LegacyClient.id
        /\ authzOk[e1] = "read"
        /\ cout[e1] = NextError("NotFound")
        /\ IsSingleRead(e2)
        /\ creq[e2].orgId = LegacyClient.organizationId
        /\ creq[e2].clientId = LegacyClient.id
        /\ cout[e2].status = 200
        /\ \E d \in cout[e2].data : d.id = LegacyClient.id

----------------------------------------------------------------------------
(* Claims about sessions and verification codes (SpecSessions).             *)

Finished(i) == subs[i].pc = "done"
Won(i) == Finished(i) /\ subs[i].ok

\* C2: after a refresh with refresh value R succeeds the response carries a new
\* pair, R is rejected on every later refresh, the old pair is revoked in the
\* same transition that issues the new one, so that old and new pair are never
\* both valid, and of concurrent refreshes of R exactly one succeeds.
C2_RefreshRevokesOldPair ==
    /\ \A n \in SessionIds :
         (sess[n].issued /\ sess[n].parent # 0) =>
             /\ sess[sess[n].parent].ref # "valid"
             /\ sess[sess[n].parent].tok # "valid"
    /\ \A n \in SessionIds :
         Cardinality({i \in Subs : Won(i) /\ subs[i].op = "refresh"
                                         /\ subs[i].cred = Cred("refresh", n)}) <= 1
    /\ \A i \in Subs :
         (Won(i) /\ subs[i].op = "refresh") =>
             /\ subs[i].issued # subs[i].cred.n
             /\ sess[subs[i].issued].parent = subs[i].cred.n

\* C3: logout succeeds with the session token or with the refresh value, after
\* it neither the token nor the paired refresh value authenticates, and a second
\* logout with the same credential succeeds too.
C3_LogoutInvalidatesPair ==
    \A i \in Subs :
        (Finished(i) /\ subs[i].op = "logout" /\ Known(subs[i].cred.n)) =>
            /\ subs[i].ok
            /\ sess[subs[i].cred.n].tok # "valid"
            /\ sess[subs[i].cred.n].ref # "valid"

\* C4: a verification code is consumed exactly once: of the submissions of the
\* 'code' step that redeem the same code at most one succeeds, exactly one when
\* all of them are answered before the code expires, every other one fails,
\* with the already-consumed error unless the code has expired, and no
\* redemption succeeds once one has.
C4_CodeConsumedOnce ==
    \A c \in Codes :
        LET tries == {i \in Subs : Finished(i) /\ subs[i].op = "code"
                                               /\ subs[i].cred.n = c}
            wins == {i \in tries : subs[i].ok}
        IN  /\ Cardinality(wins) <= 1
            /\ (wins # {}) <=> (codeState[c] = "consumed")
            /\ \A i \in tries \ wins :
                  /\ subs[i].reason \in {"consumed", "expired"}
                  /\ ~codeExpired[c] => subs[i].reason = "consumed"
            /\ (tries # {} /\ ~codeExpired[c]) => Cardinality(wins) = 1
            /\ \A i \in wins : /\ sess[subs[i].issued].issued
                               /\ \A j \in wins : subs[j].issued = subs[i].issued => j = i

\* C4 witness: every submission redeemed the same code; one got a session and
\* the others the already-consumed error.
C4_Witness ==
    \E c \in Codes :
        /\ \A i \in Subs : Finished(i) /\ subs[i].op = "code" /\ subs[i].cred.n = c
        /\ Cardinality({i \in Subs : subs[i].ok}) = 1
        /\ \A i \in Subs : ~subs[i].ok => subs[i].reason = "consumed"

----------------------------------------------------------------------------
(* Claims about the cache (SpecCache).                                      *)

Computing(k) == {c \in Calls : ccalls[c].state = "computing" /\ ccalls[c].key = k}

====
